---------------------------- MODULE Spec2Model ----------------------------
(***************************************************************************)
(* A model of the logic-programming interpreter of this repository:        *)
(*   parser.py          the lexer and the recursive-descent parser          *)
(*   term_fact_rule.py  the symbol registry (Term.all_terms), Fact, Expr,   *)
(*                      Rule and the knowledge base (all_facts, all_rules)  *)
(*   prolog.py          matches, query_simple, query_variable, query and    *)
(*                      the two line handlers                               *)
(* A source line is a sequence of one-character strings, a name is the     *)
(* sequence of the characters of an identifier.  A Python exception is a   *)
(* result record with ok = FALSE and the kind of the failure in err.       *)
(***************************************************************************)
EXTENDS Integers, Sequences, FiniteSets, TLC

VARIABLES all_terms, all_facts, all_rules, out

vars == <<all_terms, all_facts, all_rules, out>>

(***************************************************************************)
(* Characters (str.isspace, str.isalpha, str.isupper, str.islower on the   *)
(* characters the model's lines are written with).                         *)
(***************************************************************************)
LowerChars == {"a", "b", "c", "p", "q", "r"}
UpperChars == {"X", "Y", "Z"}
SpaceChars == {" "}
PunctChars == {"(", ")", ".", ",", ";"}

isspace(c) == c \in SpaceChars
isalpha(c) == c \in LowerChars \cup UpperChars
isupper(c) == c \in UpperChars
islower(c) == c \in LowerChars

(***************************************************************************)
(* Tokens and the lexer.  position is 0-based as in the source, so the     *)
(* character at position is source[position + 1] here.                     *)
(***************************************************************************)
NoToken == [source |-> <<>>, type |-> "none"]

Token(source, type) == [source |-> source, type |-> type]

from_char(c) ==
  CASE c = "(" -> "lparen"
    [] c = ")" -> "rparen"
    [] c = "." -> "period"
    [] c = "," -> "comma"
    [] c = ";" -> "semicolon"

Lexer(source) == [source |-> source, position |-> 0, peeked |-> NoToken]

advance(lexer) == [lexer EXCEPT !.position = @ + 1]

RECURSIVE skip_space(_)
skip_space(lexer) ==
  IF lexer.position < Len(lexer.source) /\ isspace(lexer.source[lexer.position + 1])
  THEN skip_space(advance(lexer))
  ELSE lexer

RECURSIVE scan_ident(_)
scan_ident(lexer) ==
  IF lexer.position < Len(lexer.source)
     /\ (isalpha(lexer.source[lexer.position + 1]) \/ lexer.source[lexer.position + 1] = "_")
  THEN scan_ident(advance(lexer))
  ELSE lexer

\* A lexer step: the token (ok) or the lexical error, and the lexer after it.
LexOk(lexer, tok) == [ok |-> TRUE, err |-> "", lexer |-> lexer, tok |-> tok]
LexErr(lexer) == [ok |-> FALSE, err |-> "lex", lexer |-> lexer, tok |-> NoToken]

\* Bind(v, Op) names a value once for the steps that follow it.
Bind(v, Op(_)) == Op(v)

\* next_token from the first character that is no whitespace.
scan_token(lexer) ==
  IF lexer.position >= Len(lexer.source)
  THEN LexOk(lexer, Token(<<"\\0">>, "eof"))
  ELSE Bind(lexer.source[lexer.position + 1], LAMBDA c :
    IF isalpha(c) \/ c = "_"
    THEN Bind(scan_ident(lexer), LAMBDA l2 :
           LexOk(l2, Token(SubSeq(lexer.source, lexer.position + 1, l2.position), "ident")))
    ELSE IF c \in PunctChars
    THEN LexOk(advance(lexer), Token(<<c>>, from_char(c)))
    ELSE IF c = ":" /\ lexer.position < Len(lexer.source) - 1
                    /\ lexer.source[lexer.position + 2] = "-"
    THEN LexOk(advance(advance(lexer)), Token(<<":", "-">>, "colon-dash"))
    ELSE LexErr(lexer))

next_token(lexer) ==
  IF lexer.peeked # NoToken
  THEN LexOk([lexer EXCEPT !.peeked = NoToken], lexer.peeked)
  ELSE scan_token(skip_space(lexer))

peek_token(lexer) ==
  IF lexer.peeked # NoToken
  THEN LexOk(lexer, lexer.peeked)
  ELSE Bind(next_token(lexer), LAMBDA r :
         IF r.ok THEN LexOk([r.lexer EXCEPT !.peeked = r.tok], r.tok) ELSE r)

\* check_token: ok, the lexer after the peek, and whether the type is one of types.
check_token(lexer, types) ==
  Bind(peek_token(lexer), LAMBDA r :
    [ok |-> r.ok, err |-> r.err, lexer |-> r.lexer, tok |-> r.tok,
     is |-> r.ok /\ r.tok.type \in types])

expect(lexer, types) ==
  Bind(next_token(lexer), LAMBDA r :
    IF ~r.ok THEN r
    ELSE IF r.tok.type \in types THEN r
    ELSE [ok |-> FALSE, err |-> "syntax", lexer |-> r.lexer, tok |-> r.tok])

\* take_token: the token taken (taken = TRUE) or None (taken = FALSE).
take_token(lexer, types) ==
  Bind(check_token(lexer, types), LAMBDA c :
    IF ~c.ok
    THEN [ok |-> FALSE, err |-> c.err, lexer |-> c.lexer, tok |-> NoToken, taken |-> FALSE]
    ELSE IF c.is
    THEN Bind(expect(c.lexer, types), LAMBDA e :
           [ok |-> e.ok, err |-> e.err, lexer |-> e.lexer, tok |-> e.tok, taken |-> e.ok])
    ELSE [ok |-> TRUE, err |-> "", lexer |-> c.lexer, tok |-> NoToken, taken |-> FALSE])

(***************************************************************************)
(* The symbol registry: Term.all_terms, one insertion-ordered dict of      *)
(* names per TermType, here one sequence of names per kind.                *)
(***************************************************************************)
TermTypes == <<"variable", "rule", "atom">>

Term(name, type) == [name |-> name, type |-> type]

InSeq(x, s) == \E i \in 1..Len(s) : s[i] = x

\* Operations on the registry give the registry after them and, when ok,
\* the term; a failed assertion gives ok = FALSE and leaves what was
\* registered before it.
RegOk(terms, val) == [ok |-> TRUE, err |-> "", terms |-> terms, val |-> val]
RegErr(err, terms) == [ok |-> FALSE, err |-> err, terms |-> terms, val |-> <<>>]

\* Term.__init__ without the look through the namespaces.
Term__init__unchecked(terms, name, type) ==
  RegOk([terms EXCEPT ![type] = Append(@, name)], Term(name, type))

\* Term.__init__: the name must be in none of the namespaces.
Term__init__(terms, name, type) ==
  IF \E i \in 1..Len(TermTypes) : InSeq(name, terms[TermTypes[i]])
  THEN RegErr("kind", terms)
  ELSE RegOk([terms EXCEPT ![type] = Append(@, name)], Term(name, type))

Term_term(terms, name, type) ==
  IF InSeq(name, terms[type])
  THEN RegOk(terms, Term(name, type))
  ELSE Term__init__(terms, name, type)

Term_atom(terms, name) ==
  IF ~islower(name[1]) THEN RegErr("case", terms) ELSE Term_term(terms, name, "atom")

Term_variable(terms, name) ==
  IF ~isupper(name[1]) THEN RegErr("case", terms) ELSE Term_term(terms, name, "variable")

Term_rule(terms, name) ==
  IF ~islower(name[1]) THEN RegErr("case", terms) ELSE Term_term(terms, name, "rule")

(***************************************************************************)
(* Fact, Expr, Rule.  Fact.adding and Rule.adding are FALSE whenever the   *)
(* handlers run (only the AddingFacts / AddingRules context managers set   *)
(* them, and no handler enters one), so construction appends nothing.      *)
(***************************************************************************)
Fact__post_init__ok(rule, arguments) ==
  /\ rule.type = "rule"
  /\ \A i \in 1..Len(arguments) : arguments[i].type \in {"variable", "atom"}

Fact(rule, arguments) ==
  [kind |-> "fact", rule |-> rule, arguments |-> arguments,
   is_variable |-> \E i \in 1..Len(arguments) : arguments[i].type = "variable"]

Expr(arg1, arg2, type) ==
  [kind |-> "expr", arg1 |-> arg1, arg2 |-> arg2, type |-> type,
   is_variable |-> arg1.is_variable \/ arg2.is_variable]

And(left, right) == Expr(left, right, "and")
Or(left, right) == Expr(left, right, "or")

Rule__post_init__ok(fact, body) == fact.is_variable /\ body.is_variable

Rule(fact, body) == [kind |-> "rule", fact |-> fact, body |-> body]

\* dict.get(name, default) on a var_dict, a function from names to terms.
dict_get(var_dict, name, default) ==
  IF name \in DOMAIN var_dict THEN var_dict[name] ELSE default

Fact_replace(fact, var_dict) ==
  Fact(fact.rule,
       [i \in 1..Len(fact.arguments) |->
          IF fact.arguments[i].type = "variable"
          THEN dict_get(var_dict, fact.arguments[i].name, fact.arguments[i])
          ELSE fact.arguments[i]])

RECURSIVE replace(_, _)
replace(x, var_dict) ==
  IF x.kind = "fact" THEN Fact_replace(x, var_dict)
  ELSE Expr(replace(x.arg1, var_dict), replace(x.arg2, var_dict), x.type)

RECURSIVE get_variables(_)
get_variables(x) ==
  IF x.kind = "fact"
  THEN {x.arguments[i].name : i \in {j \in 1..Len(x.arguments) : x.arguments[j].type = "variable"}}
  ELSE get_variables(x.arg1) \cup get_variables(x.arg2)

\* Term.__eq__ compares names; Fact.__eq__ the predicate, the number of
\* arguments and the arguments pairwise.
Term__eq__(s, t) == s.name = t.name

Fact__eq__(f, g) ==
  /\ g.kind = "fact"
  /\ Term__eq__(f.rule, g.rule)
  /\ Len(f.arguments) = Len(g.arguments)
  /\ \A i \in 1..Len(f.arguments) : Term__eq__(f.arguments[i], g.arguments[i])

\* The dataclass equality of Expr (arg1, arg2, type, is_variable).
RECURSIVE Expr__eq__(_, _)
Expr__eq__(x, y) ==
  IF x.kind = "fact" THEN Fact__eq__(x, y)
  ELSE /\ y.kind = "expr"
       /\ Expr__eq__(x.arg1, y.arg1)
       /\ Expr__eq__(x.arg2, y.arg2)
       /\ x.type = y.type
       /\ x.is_variable = y.is_variable

\* The dataclass equality of Rule (fact, body).
Rule__eq__(r, s) == Fact__eq__(r.fact, s.fact) /\ Expr__eq__(r.body, s.body)

(***************************************************************************)
(* The parser.  A parse step gives ok, the lexer and the registry after    *)
(* it (the registry is global: what a step registered stays registered     *)
(* when a later step fails) and, when ok, the value parsed.                *)
(***************************************************************************)
POk(lexer, terms, val) ==
  [ok |-> TRUE, err |-> "", lexer |-> lexer, terms |-> terms, val |-> val]
PErr(err, lexer, terms) ==
  [ok |-> FALSE, err |-> err, lexer |-> lexer, terms |-> terms, val |-> <<>>]

\* A failed step of the lexer, or of the registry, as a failed parse step.
LexFail(e, terms) == PErr(e.err, e.lexer, terms)
RegDone(t, lexer) == IF t.ok THEN POk(lexer, t.terms, t.val) ELSE PErr(t.err, lexer, t.terms)

parse_atom_or_variable(lexer, terms) ==
  Bind(expect(lexer, {"ident"}), LAMBDA e :
    IF ~e.ok THEN LexFail(e, terms)
    ELSE IF isupper(e.tok.source[1])
    THEN RegDone(Term_variable(terms, e.tok.source), e.lexer)
    ELSE RegDone(Term_atom(terms, e.tok.source), e.lexer))

\* The loop "while lexer.take_token(COMMA): arguments.append(...)".
RECURSIVE parse_more_arguments(_, _, _)
parse_more_arguments(lexer, terms, arguments) ==
  Bind(take_token(lexer, {"comma"}), LAMBDA t :
    IF ~t.ok THEN LexFail(t, terms)
    ELSE IF ~t.taken THEN POk(t.lexer, terms, arguments)
    ELSE Bind(parse_atom_or_variable(t.lexer, terms), LAMBDA a :
           IF ~a.ok THEN a
           ELSE parse_more_arguments(a.lexer, a.terms, Append(arguments, a.val))))

parse_arguments(lexer, terms) ==
  Bind(check_token(lexer, {"rparen"}), LAMBDA c :
    IF ~c.ok THEN LexFail(c, terms)
    ELSE IF c.is THEN POk(c.lexer, terms, <<>>)
    ELSE Bind(parse_atom_or_variable(c.lexer, terms), LAMBDA a :
           IF ~a.ok THEN a
           ELSE parse_more_arguments(a.lexer, a.terms, <<a.val>>)))

\* "return Fact(Term.rule(name.source), arguments)".
make_fact(r, lexer, arguments) ==
  IF ~r.ok THEN PErr(r.err, lexer, r.terms)
  ELSE IF ~Fact__post_init__ok(r.val, arguments) THEN PErr("type", lexer, r.terms)
  ELSE POk(lexer, r.terms, Fact(r.val, arguments))

parse_fact(lexer, terms) ==
  Bind(expect(lexer, {"ident"}), LAMBDA name :
    IF ~name.ok THEN LexFail(name, terms)
    ELSE Bind(expect(name.lexer, {"lparen"}), LAMBDA lp :
      IF ~lp.ok THEN LexFail(lp, terms)
      ELSE Bind(parse_arguments(lp.lexer, terms), LAMBDA args :
        IF ~args.ok THEN args
        ELSE Bind(expect(args.lexer, {"rparen"}), LAMBDA rp :
          IF ~rp.ok THEN LexFail(rp, args.terms)
          ELSE make_fact(Term_rule(args.terms, name.tok.source), rp.lexer, args.val)))))

\* The levels the other way round: "," binding tighter than ";".
precedences_comma_inner == << [t \in {"semicolon"} |-> "or"], [t \in {"comma"} |-> "and"] >>

\* precedences[level + 1]: the operator tokens of a level and the
\* expression type each builds; the outermost level first.
precedences == << [t \in {"comma"} |-> "and"], [t \in {"semicolon"} |-> "or"] >>

RECURSIVE parse_expression_at_level(_, _, _)
RECURSIVE parse_level_loop(_, _, _, _)
RECURSIVE parse_primary(_, _)

parse_fact_or_expr(lexer, terms) == parse_expression_at_level(lexer, terms, 0)

parse_primary(lexer, terms) ==
  Bind(take_token(lexer, {"lparen"}), LAMBDA t :
    IF ~t.ok THEN LexFail(t, terms)
    ELSE IF t.taken
    THEN Bind(parse_fact_or_expr(t.lexer, terms), LAMBDA e :
           IF ~e.ok THEN e
           ELSE Bind(expect(e.lexer, {"rparen"}), LAMBDA rp :
                  IF ~rp.ok THEN LexFail(rp, e.terms)
                  ELSE POk(rp.lexer, e.terms, e.val)))
    ELSE parse_fact(t.lexer, terms))

\* The loop "while (token := lexer.take_token(*precedences[level]))".
parse_level_loop(lexer, terms, level, left) ==
  Bind(take_token(lexer, DOMAIN precedences[level + 1]), LAMBDA t :
    IF ~t.ok THEN LexFail(t, terms)
    ELSE IF ~t.taken THEN POk(t.lexer, terms, left)
    ELSE Bind(parse_expression_at_level(t.lexer, terms, level + 1), LAMBDA right :
           IF ~right.ok THEN right
           ELSE parse_level_loop(right.lexer, right.terms, level,
                                 Expr(left, right.val, precedences[level + 1][t.tok.type]))))

parse_expression_at_level(lexer, terms, level) ==
  IF level >= Len(precedences) THEN parse_primary(lexer, terms)
  ELSE Bind(parse_expression_at_level(lexer, terms, level + 1), LAMBDA left :
         IF ~left.ok THEN left
         ELSE parse_level_loop(left.lexer, left.terms, level, left.val))

parse_statement(lexer, terms) ==
  Bind(parse_fact(lexer, terms), LAMBDA fact :
    IF ~fact.ok THEN fact
    ELSE Bind(take_token(fact.lexer, {"colon-dash"}), LAMBDA cd :
      IF ~cd.ok THEN LexFail(cd, fact.terms)
      ELSE IF cd.taken
      THEN Bind(parse_fact_or_expr(cd.lexer, fact.terms), LAMBDA body :
             IF ~body.ok THEN body
             ELSE IF ~Rule__post_init__ok(fact.val, body.val)
             THEN PErr("invalid", body.lexer, body.terms)
             ELSE POk(body.lexer, body.terms, Rule(fact.val, body.val)))
      ELSE Bind(expect(cd.lexer, {"period"}), LAMBDA p :
        IF ~p.ok THEN LexFail(p, fact.terms)
        ELSE Bind(expect(p.lexer, {"eof"}), LAMBDA e :
          IF ~e.ok THEN LexFail(e, fact.terms)
          ELSE IF fact.val.is_variable THEN PErr("invalid", e.lexer, fact.terms)
          ELSE POk(e.lexer, fact.terms, fact.val)))))

parse_query(lexer, terms) ==
  Bind(parse_fact_or_expr(lexer, terms), LAMBDA x :
    IF ~x.ok THEN x
    ELSE Bind(expect(x.lexer, {"period"}), LAMBDA p :
      IF ~p.ok THEN LexFail(p, x.terms)
      ELSE Bind(expect(p.lexer, {"eof"}), LAMBDA e :
        IF ~e.ok THEN LexFail(e, x.terms)
        ELSE POk(e.lexer, x.terms, x.val))))

(***************************************************************************)
(* The resolution engine.  env is what an evaluation reads: the atoms of   *)
(* the registry in registration order, the fact list, the rule list, and   *)
(* order, the order in which this run iterates a set of variable names     *)
(* (get_variables gives a Python set of strings, whose iteration order     *)
(* follows the strings' hashes and not the order of insertion).            *)
(* A result is ok with its value, or the exception that ended the          *)
(* evaluation: "pattern" and "ground" are failed assertions, "overflow" is *)
(* the recursion running past MaxDepth.  calls is the set of ground facts  *)
(* whose query_simple is in progress, and re tells that one of them was    *)
(* queried again while in progress.                                        *)
(***************************************************************************)
MaxDepth == 5

QOk(val, re) == [ok |-> TRUE, err |-> "", val |-> val, re |-> re]
QErr(err, re) == [ok |-> FALSE, err |-> err, val |-> FALSE, re |-> re]

\* matches with the assertion on a repeated name made before the lengths
\* are compared.
matches_assert_first(pattern, terms) ==
  IF \E i, j \in 1..Len(pattern) : i < j /\ pattern[i].name = pattern[j].name
  THEN [ok |-> FALSE, err |-> "pattern", none |-> FALSE, dict |-> <<>>]
  ELSE IF Len(pattern) # Len(terms)
  THEN [ok |-> TRUE, err |-> "", none |-> TRUE, dict |-> <<>>]
  ELSE [ok |-> TRUE, err |-> "", none |-> FALSE,
        dict |-> [n \in {pattern[i].name : i \in 1..Len(pattern)} |->
                    terms[CHOOSE i \in 1..Len(pattern) : pattern[i].name = n]]]

\* matches: none = TRUE is the None result, dict the var_dict.
matches(pattern, terms) ==
  IF Len(pattern) # Len(terms)
  THEN [ok |-> TRUE, err |-> "", none |-> TRUE, dict |-> <<>>]
  ELSE IF \E i, j \in 1..Len(pattern) : i < j /\ pattern[i].name = pattern[j].name
  THEN [ok |-> FALSE, err |-> "pattern", none |-> FALSE, dict |-> <<>>]
  ELSE [ok |-> TRUE, err |-> "", none |-> FALSE,
        dict |-> [n \in {pattern[i].name : i \in 1..Len(pattern)} |->
                    terms[CHOOSE i \in 1..Len(pattern) : pattern[i].name = n]]]

\* The iteration of a set of variable names.
iterate(names, order) == SelectSeq(order, LAMBDA n : n \in names)

RECURSIVE Power(_, _)
Power(b, n) == IF n = 0 THEN 1 ELSE b * Power(b, n - 1)

\* The k-th tuple (k from 0) of itertools.product(atoms, repeat = n): the
\* rightmost position cycles fastest.
product_at(atoms, n, k) ==
  [i \in 1..n |-> atoms[((k \div Power(Len(atoms), n - i)) % Len(atoms)) + 1]]

\* bool(result) of query: a bool, or a list that is true when not empty.
Truthy(fact, r) == IF fact.is_variable THEN Len(r.val) > 0 ELSE r.val

RECURSIVE query_simple(_, _, _, _)
RECURSIVE rules_loop(_, _, _, _, _)
RECURSIVE query_variable(_, _, _, _, _)
RECURSIVE product_loop(_, _, _, _, _, _, _, _)
RECURSIVE query(_, _, _, _, _)

\* "fact in Fact.all_facts".
fact_in(fact, facts) == \E i \in 1..Len(facts) : Fact__eq__(facts[i], fact)

\* The loop of query_simple going on to the later rules after a body held.
rules_loop_no_return(env, fact, depth, calls, i) ==
  IF i > Len(env.rules) THEN QOk(fact_in(fact, env.facts), FALSE)
  ELSE LET rule == env.rules[i] IN
       IF ~Term__eq__(rule.fact.rule, fact.rule)
       THEN rules_loop(env, fact, depth, calls, i + 1)
       ELSE LET vars_dict == matches(rule.fact.arguments, fact.arguments) IN
            IF ~vars_dict.ok THEN QErr(vars_dict.err, FALSE)
            ELSE IF vars_dict.none THEN rules_loop(env, fact, depth, calls, i + 1)
            ELSE LET body == replace(rule.body, vars_dict.dict)
                     r == query(env, body, depth + 1, FALSE, calls)
                     rest == rules_loop(env, fact, depth, calls, i + 1)
                 IN IF ~r.ok THEN r
                    ELSE IF ~rest.ok THEN rest
                    ELSE QOk(Truthy(body, r) \/ rest.val, r.re \/ rest.re)

\* The loop "for rule in Rule.all_rules" of query_simple from rule i on,
\* then "return fact in Fact.all_facts".
rules_loop(env, fact, depth, calls, i) ==
  IF i > Len(env.rules) THEN QOk(fact_in(fact, env.facts), FALSE)
  ELSE LET rule == env.rules[i]
           vars_dict == matches(rule.fact.arguments, fact.arguments)
           body == replace(rule.body, vars_dict.dict)
       IN IF ~Term__eq__(rule.fact.rule, fact.rule)
          THEN rules_loop(env, fact, depth, calls, i + 1)
          ELSE IF ~vars_dict.ok THEN QErr(vars_dict.err, FALSE)
          ELSE IF vars_dict.none THEN rules_loop(env, fact, depth, calls, i + 1)
          ELSE Bind(query(env, body, depth + 1, FALSE, calls), LAMBDA r :
                 IF ~r.ok THEN r
                 ELSE IF Truthy(body, r) THEN QOk(TRUE, r.re)
                 ELSE [rules_loop(env, fact, depth, calls, i + 1) EXCEPT !.re = @ \/ r.re])

\* query_simple answering "no" to a fact whose query is in progress.
query_simple_cycle_check(env, fact, depth, calls) ==
  IF depth > MaxDepth THEN QErr("overflow", FALSE)
  ELSE IF fact.is_variable THEN QErr("ground", FALSE)
  ELSE IF fact.kind = "fact"
  THEN IF fact \in calls THEN QOk(FALSE, TRUE)
       ELSE rules_loop(env, fact, depth, calls \cup {fact}, 1)
  ELSE LET a == query_simple(env, fact.arg1, depth + 1, calls) IN
       IF ~a.ok THEN a
       ELSE IF (fact.type = "and" /\ ~a.val) \/ (fact.type = "or" /\ a.val) THEN a
       ELSE LET b == query_simple(env, fact.arg2, depth + 1, calls) IN
            [b EXCEPT !.re = @ \/ a.re]

query_simple(env, fact, depth, calls) ==
  IF depth > MaxDepth THEN QErr("overflow", FALSE)
  ELSE IF fact.is_variable THEN QErr("ground", FALSE)
  ELSE IF fact.kind = "fact"
  THEN [rules_loop(env, fact, depth, calls \cup {fact}, 1) EXCEPT !.re = @ \/ fact \in calls]
  ELSE Bind(query_simple(env, fact.arg1, depth + 1, calls), LAMBDA a :
         IF ~a.ok THEN a
         ELSE IF (fact.type = "and" /\ ~a.val) \/ (fact.type = "or" /\ a.val) THEN a
         ELSE [query_simple(env, fact.arg2, depth + 1, calls) EXCEPT !.re = @ \/ a.re])

\* The loop "for atoms in product(...)" of query_variable from tuple k on.
\* The var_dict of a tuple of atoms: variables[i] bound to the term of atoms[i].
zip_dict(variables, atoms) ==
  [n \in {variables[i] : i \in 1..Len(variables)} |->
     Term(atoms[CHOOSE i \in 1..Len(variables) : variables[i] = n], "atom")]

product_loop(env, fact, depth, needs_all_answers, calls, variables, k, all_var_dicts) ==
  IF k >= Power(Len(env.atoms), Len(variables)) THEN QOk(all_var_dicts, FALSE)
  ELSE LET var_dict == zip_dict(variables, product_at(env.atoms, Len(variables), k)) IN
       Bind(query_simple(env, replace(fact, var_dict), depth + 1, calls), LAMBDA r :
         IF ~r.ok THEN r
         ELSE IF r.val /\ ~needs_all_answers THEN QOk(Append(all_var_dicts, var_dict), r.re)
         ELSE [product_loop(env, fact, depth, needs_all_answers, calls, variables, k + 1,
                            IF r.val THEN Append(all_var_dicts, var_dict)
                                     ELSE all_var_dicts) EXCEPT !.re = @ \/ r.re])

query_variable(env, fact, depth, needs_all_answers, calls) ==
  IF depth > MaxDepth THEN QErr("overflow", FALSE)
  ELSE IF ~fact.is_variable THEN QErr("ground", FALSE)
  ELSE product_loop(env, fact, depth, needs_all_answers, calls,
                    iterate(get_variables(fact), env.order), 0, <<>>)

query(env, fact, depth, needs_all_var_answers, calls) ==
  IF fact.is_variable
  THEN query_variable(env, fact, depth, needs_all_var_answers, calls)
  ELSE query_simple(env, fact, depth, calls)

(***************************************************************************)
(* The knowledge base and the line handlers.                               *)
(***************************************************************************)
add_facts(facts, fact) == IF fact_in(fact, facts) THEN facts ELSE Append(facts, fact)

\* add_rules without the "not in" test.
add_rules_always(rules, rule) == Append(rules, rule)

add_rules(rules, rule) ==
  IF \E i \in 1..Len(rules) : Rule__eq__(rules[i], rule) THEN rules ELSE Append(rules, rule)

\* str.strip() and the first piece of str.split("%").
RECURSIVE lstrip(_)
lstrip(s) == IF Len(s) > 0 /\ isspace(s[1]) THEN lstrip(Tail(s)) ELSE s

RECURSIVE rstrip(_)
rstrip(s) == IF Len(s) > 0 /\ isspace(s[Len(s)]) THEN rstrip(SubSeq(s, 1, Len(s) - 1)) ELSE s

strip(s) == rstrip(lstrip(s))

RECURSIVE before_percent(_)
before_percent(s) ==
  IF Len(s) = 0 \/ s[1] = "%" THEN <<>> ELSE <<s[1]>> \o before_percent(Tail(s))

NoResult == [ok |-> TRUE, err |-> "", val |-> FALSE, re |-> FALSE]

\* No tree: the line was empty or its parse failed.
NoTree == [kind |-> "none"]

\* What the last handler call did: the line, whether it returned (ok) or
\* raised (err), the tree it parsed, the order in which the run iterates
\* variable names and, for a query, the result of query().
Outcome(op, line, ok, err, val, order, res) ==
  [op |-> op, line |-> line, ok |-> ok, err |-> err, val |-> val, order |-> order, res |-> res]

MaxFacts == 2
MaxRules == 2

Orders(s) ==
  {t \in [1..Len(s) -> {s[i] : i \in 1..Len(s)}] : \A i, j \in 1..Len(s) : i # j => t[i] # t[j]}

Idle == Outcome("idle", <<>>, TRUE, "", NoTree, <<>>, NoResult)

handle_statement(line) ==
  LET statement == before_percent(strip(line)) IN
  IF statement = <<>>
  THEN /\ out' = Outcome("statement", line, TRUE, "", NoTree, <<>>, NoResult)
       /\ UNCHANGED <<all_terms, all_facts, all_rules>>
  ELSE \E p \in {parse_statement(Lexer(statement), all_terms)} :
       /\ all_terms' = p.terms
       /\ all_facts' = IF p.ok /\ p.val.kind = "fact" THEN add_facts(all_facts, p.val)
                                                      ELSE all_facts
       /\ all_rules' = IF p.ok /\ p.val.kind = "rule" THEN add_rules(all_rules, p.val)
                                                      ELSE all_rules
       /\ Len(all_facts') <= MaxFacts
       /\ Len(all_rules') <= MaxRules
       /\ out' = Outcome("statement", line, p.ok, p.err, IF p.ok THEN p.val ELSE NoTree, <<>>, NoResult)

handle_query(line) ==
  LET query_str == before_percent(strip(line)) IN
  IF query_str = <<>>
  THEN /\ out' = Outcome("query", line, TRUE, "", NoTree, <<>>, NoResult)
       /\ UNCHANGED <<all_terms, all_facts, all_rules>>
  ELSE \E p \in {parse_query(Lexer(query_str), all_terms)} :
       /\ all_terms' = p.terms
       /\ UNCHANGED <<all_facts, all_rules>>
       /\ IF ~p.ok
          THEN out' = Outcome("query", line, FALSE, p.err, NoTree, <<>>, NoResult)
          ELSE \E order \in Orders(p.terms.variable) :
               \E r \in {query([atoms |-> p.terms.atom, facts |-> all_facts,
                                rules |-> all_rules, order |-> order], p.val, 0, TRUE, {})} :
                 out' = Outcome("query", line, r.ok, r.err, p.val, order, r)

(***************************************************************************)
(* The lines fed to the handlers.                                          *)
(***************************************************************************)
Pa == <<"p", "(", "a", ")">>
Pb == <<"p", "(", "b", ")">>
PX == <<"p", "(", "X", ")">>
PY == <<"p", "(", "Y", ")">>
Qa == <<"q", "(", "a", ")">>
Qb == <<"q", "(", "b", ")">>
QX == <<"q", "(", "X", ")">>
QXX == <<"q", "(", "X", ",", " ", "X", ")">>
QaX == <<"q", "(", "a", ",", "X", ")">>
Qaa == <<"q", "(", "a", ",", "a", ")">>
Dot == <<".">>
If == <<" ", ":", "-", " ">>
Comma == <<",", " ">>
Semi == <<";", " ">>

StatementLines ==
  { Pa \o Dot, Pb \o Dot, Qb \o Dot,
    QX \o If \o PX \o Dot,
    QX \o If \o QX \o Dot,
    QX \o If \o PY \o Dot,
    QXX \o If \o PX \o Dot,
    QaX \o If \o PX \o Dot,
    QX \o If \o PX,
    QX \o If \o PX \o Dot \o <<" ", "#">>,
    <<"p", "(", "b">>,
    PX \o Dot,
    <<"p", "(", "p", ")", ".">>,
    <<"p", "(", "_", ")", ".">>,
    Pa \o If \o Qa \o Dot,
    Pa \o <<" ", "#">>,
    Pa,
    <<" ", "%", "p">> }

QueryLines ==
  { Qa \o Dot, Qb \o Dot, Qaa \o Dot, QX \o Dot,
    PX \o Comma \o PY \o Dot,
    Pa \o Comma \o Qb \o Semi \o Qa \o Dot,
    <<"q", "(", "b">>,
    <<"%">> }

\* Queries that are chains of facts joined by "," and ";": every choice of
\* one to MaxChain facts and of the operators between them.
MaxChain == 3

ChainFacts ==
  { [text |-> Pa, fact |-> Fact(Term(<<"p">>, "rule"), <<Term(<<"a">>, "atom")>>)],
    [text |-> Qb, fact |-> Fact(Term(<<"q">>, "rule"), <<Term(<<"b">>, "atom")>>)],
    [text |-> QX, fact |-> Fact(Term(<<"q">>, "rule"), <<Term(<<"X">>, "variable")>>)] }

ChainOps == { [text |-> Comma, type |-> "and"], [text |-> Semi, type |-> "or"] }

ChainInputs ==
  UNION { [facts : [1..n -> ChainFacts], ops : [1..(n - 1) -> ChainOps]] : n \in 1..MaxChain }

RECURSIVE ChainText(_, _)
ChainText(c, i) ==
  IF i = Len(c.facts) THEN c.facts[i].text \o Dot
  ELSE c.facts[i].text \o c.ops[i].text \o ChainText(c, i + 1)

ChainLines == { ChainText(c, 1) : c \in ChainInputs }

Init ==
  /\ all_terms = [variable |-> <<>>, rule |-> <<>>, atom |-> <<>>]
  /\ all_facts = <<>>
  /\ all_rules = <<>>
  /\ out = Idle

\* load_file and the read loop hand a line to handle_statement, the read
\* loop and handle_repl a line to handle_query; Return is the handler
\* returning (or its exception reaching a caller that goes on to the next
\* line, the registry and the knowledge base being module globals).
Statement == out.op = "idle" /\ \E line \in StatementLines : handle_statement(line)

Query == out.op = "idle" /\ \E line \in QueryLines : handle_query(line)

Return == out.op # "idle" /\ out' = Idle /\ UNCHANGED <<all_terms, all_facts, all_rules>>

Next == Statement \/ Query \/ Return

Spec == Init /\ [][Next]_vars

\* The same interpreter fed the chain queries only.
QueryChain == out.op = "idle" /\ \E line \in ChainLines : handle_query(line)

NextChain == QueryChain \/ Return

SpecChain == Init /\ [][NextChain]_vars


(***************************************************************************)
(* What the claims are stated with.                                        *)
(***************************************************************************)
\* What an evaluation reads in the current state.
Env == [atoms |-> all_terms.atom, facts |-> all_facts, rules |-> all_rules, order |-> out.order]

KB == <<all_facts, all_rules>>

Registry == all_terms

Names(s) == {s[i] : i \in 1..Len(s)}

NoDuplicates(s) == \A i, j \in 1..Len(s) : i # j => s[i] # s[j]

IsPrefix(s, t) == Len(s) <= Len(t) /\ SubSeq(t, 1, Len(s)) = s

Aborted(o) == o.op \in {"statement", "query"} /\ ~o.ok

\* The last line was a query whose tree is a ground fact.
GroundFactQuery == out.op = "query" /\ out.val.kind = "fact" /\ ~out.val.is_variable

Repeated(arguments) ==
  \E i, j \in 1..Len(arguments) : i < j /\ arguments[i].name = arguments[j].name

\* Rule i is a rule of the predicate of call c with as many arguments.
Applicable(i, c) ==
  /\ all_rules[i].fact.rule.name = c.rule.name
  /\ Len(all_rules[i].fact.arguments) = Len(c.arguments)

\* The body of rule i under the binding of its head to call c, and its
\* evaluation as the code asks for it (one witness only).
BodyOf(i, c) ==
  replace(all_rules[i].body, matches(all_rules[i].fact.arguments, c.arguments).dict)

BodyResult(i, c) == query(Env, BodyOf(i, c), 1, FALSE, {c})

BodyHolds(i, c) == BodyResult(i, c).ok /\ Truthy(BodyOf(i, c), BodyResult(i, c))

BodyFails(i, c) == BodyResult(i, c).ok /\ ~Truthy(BodyOf(i, c), BodyResult(i, c))

Stored(c) ==
  \E i \in 1..Len(all_facts) :
    all_facts[i].rule.name = c.rule.name /\ all_facts[i].arguments = c.arguments

\* C1: a line whose processing aborts with an error leaves the registry and
\* the knowledge base exactly as they were before the line.
C1_AbortLeavesStateUnchanged ==
  [][Aborted(out') => (Registry' = Registry /\ KB' = KB)]_vars

\* C2: every name is registered under at most one kind; a request for a
\* name under the kind it has returns the existing term and leaves the
\* registry unchanged; a request for it under another kind is an error.
Term_request(terms, name, type) ==
  CASE type = "atom" -> Term_atom(terms, name)
    [] type = "variable" -> Term_variable(terms, name)
    [] type = "rule" -> Term_rule(terms, name)

C2_OneKindPerName ==
  \A i, j \in 1..Len(TermTypes) :
    /\ NoDuplicates(all_terms[TermTypes[i]])
    /\ \A name \in Names(all_terms[TermTypes[i]]) :
         IF i = j
         THEN Term_request(all_terms, name, TermTypes[j]) = RegOk(all_terms, Term(name, TermTypes[i]))
         ELSE /\ name \notin Names(all_terms[TermTypes[j]])
              /\ ~Term_request(all_terms, name, TermTypes[j]).ok
              /\ Term_request(all_terms, name, TermTypes[j]).terms = all_terms

C2_Witness ==
  /\ out.op = "statement" /\ out.err = "kind"
  /\ \A i \in 1..Len(TermTypes) : Len(all_terms[TermTypes[i]]) > 0

\* C3: a query with free variables returns exactly the substitutions whose
\* ground instance is true, each once, the variables taken in first-seen
\* order and the atom tuples in lexicographic order of registration.
RECURSIVE Dedup(_)
Dedup(s) ==
  IF Len(s) = 0 THEN <<>>
  ELSE LET front == Dedup(SubSeq(s, 1, Len(s) - 1)) IN
       IF InSeq(s[Len(s)], front) THEN front ELSE Append(front, s[Len(s)])

RECURSIVE Occurrences(_)
Occurrences(x) ==
  IF x.kind = "fact"
  THEN SelectSeq([i \in 1..Len(x.arguments) |-> x.arguments[i]],
                 LAMBDA t : t.type = "variable")
  ELSE Occurrences(x.arg1) \o Occurrences(x.arg2)

FirstSeen(x) == Dedup([i \in 1..Len(Occurrences(x)) |-> Occurrences(x)[i].name])

Substitution(variables, atoms) ==
  [n \in Names(variables) |->
     Term(atoms[CHOOSE i \in 1..Len(variables) : variables[i] = n], "atom")]

ExpectedAnswers(x) ==
  LET variables == FirstSeen(x)
      count == Power(Len(all_terms.atom), Len(variables))
      all == [k \in 1..count |->
                Substitution(variables, product_at(all_terms.atom, Len(variables), k - 1))]
  IN SelectSeq(all, LAMBDA d : query_simple(Env, replace(x, d), 1, {}).val)

C3_AnswersInFirstSeenOrder ==
  (out.op = "query" /\ out.ok /\ out.val.kind # "none" /\ out.val.is_variable)
    => out.res.val = ExpectedAnswers(out.val)

\* C4: a ground fact query is true at the first rule of its predicate and
\* arity whose body holds, whatever the later rules would do, and when no
\* such rule's body holds it is true iff an equal fact is stored; And / Or
\* are the conjunction / disjunction of the operands' results.
FirstHolding(i, c) ==
  /\ Applicable(i, c) /\ ~Repeated(all_rules[i].fact.arguments)
  /\ BodyHolds(i, c)
  /\ \A j \in 1..(i - 1) :
       Applicable(j, c) => (~Repeated(all_rules[j].fact.arguments) /\ BodyFails(j, c))

NoneHolding(c) ==
  \A i \in 1..Len(all_rules) :
    Applicable(i, c) => (~Repeated(all_rules[i].fact.arguments) /\ BodyFails(i, c))

C4_GroundEvaluation ==
  /\ GroundFactQuery =>
       /\ (\E i \in 1..Len(all_rules) : FirstHolding(i, out.val))
            => (out.ok /\ out.res.val = TRUE)
       /\ NoneHolding(out.val) => (out.ok /\ out.res.val = Stored(out.val))
  /\ (out.op = "query" /\ out.val.kind = "expr" /\ ~out.val.is_variable) =>
       LET a == query_simple(Env, out.val.arg1, 1, {})
           b == query_simple(Env, out.val.arg2, 1, {})
       IN (a.ok /\ b.ok) =>
            /\ out.ok
            /\ out.res.val = IF out.val.type = "and" THEN a.val /\ b.val ELSE a.val \/ b.val

C4_Witness ==
  /\ GroundFactQuery /\ out.ok /\ out.res.val = TRUE
  /\ \E i, j \in 1..Len(all_rules) :
       /\ i < j /\ FirstHolding(i, out.val)
       /\ Applicable(j, out.val)
       /\ (Repeated(all_rules[j].fact.arguments) \/ ~BodyResult(j, out.val).ok)

\* C5: an unparenthesized chain of facts joined by "," and ";" parses to
\* the left-associated And of its maximal ";"-separated groups, each the
\* left-associated Or of its facts.
\* ExpectedTree reads the chain left to right: done is the And of the
\* groups closed so far (NoTree when there is none), group the Or of the
\* facts of the open group.
JoinAnd(done, group) == IF done = NoTree THEN group ELSE And(done, group)

RECURSIVE ExpectedFrom(_, _, _, _)
ExpectedFrom(c, i, done, group) ==
  IF i > Len(c.facts) THEN JoinAnd(done, group)
  ELSE IF c.ops[i - 1].type = "and"
  THEN ExpectedFrom(c, i + 1, JoinAnd(done, group), c.facts[i].fact)
  ELSE ExpectedFrom(c, i + 1, done, Or(group, c.facts[i].fact))

ExpectedTree(c) == ExpectedFrom(c, 2, NoTree, c.facts[1].fact)

C5_SemicolonBindsTighter ==
  out.op = "query" =>
    \A c \in ChainInputs :
      ChainText(c, 1) = out.line => out.val = ExpectedTree(c)

C5_Witness ==
  /\ out.op = "query"
  /\ out.line = Pa \o Comma \o Qb \o Semi \o QX \o Dot
  /\ out.val = And(Fact(Term(<<"p">>, "rule"), <<Term(<<"a">>, "atom")>>),
                   Or(Fact(Term(<<"q">>, "rule"), <<Term(<<"b">>, "atom")>>),
                      Fact(Term(<<"q">>, "rule"), <<Term(<<"X">>, "variable")>>)))

\* C6: a statement line is accepted only when it is a fact, optionally
\* ":-" and a body, then one "." and the end of the input.
\* TokenTypes is the line lexed to its end: the types of its tokens up to
\* "eof", or up to "error" at a character that is no token.
RECURSIVE TokenTypesFrom(_)
TokenTypesFrom(lexer) ==
  LET r == next_token(lexer) IN
  IF ~r.ok THEN <<"error">>
  ELSE IF r.tok.type = "eof" THEN <<"eof">>
  ELSE <<r.tok.type>> \o TokenTypesFrom(r.lexer)

TokenTypes(line) == TokenTypesFrom(Lexer(before_percent(strip(line))))

EndsWithOnePeriod(types) ==
  /\ Len(types) >= 2
  /\ types[Len(types)] = "eof"
  /\ types[Len(types) - 1] = "period"
  /\ \A i \in 1..(Len(types) - 2) : types[i] # "period"

C6_StatementNeedsPeriodAndEnd ==
  (out.op = "statement" /\ out.ok /\ out.val.kind # "none")
    => EndsWithOnePeriod(TokenTypes(out.line))

\* C7: a rule whose head repeats a variable name is stored without error;
\* matching a call of as many arguments against that head is the
\* unsupported-pattern error, a call of another number of arguments is
\* "no match".
Calls(n) == [1..n -> {Term(name, "atom") : name \in Names(all_terms.atom)}]

C7_RepeatedVariableInHead ==
  /\ out.op = "statement" => out.err # "pattern"
  /\ (out.op = "statement" /\ out.line = QXX \o If \o PX \o Dot) => (out.ok \/ out.err = "kind")
  /\ (out.op = "statement" /\ out.ok /\ out.val.kind = "rule") => InSeq(out.val, all_rules)
  /\ \A i \in 1..Len(all_rules) :
       Repeated(all_rules[i].fact.arguments) =>
         \A n \in 0..(Len(all_rules[i].fact.arguments) + 1) : \A call \in Calls(n) :
           LET m == matches(all_rules[i].fact.arguments, call) IN
           IF n = Len(all_rules[i].fact.arguments)
           THEN ~m.ok /\ m.err = "pattern"
           ELSE m.ok /\ m.none
  /\ GroundFactQuery =>
       /\ out.err = "pattern" =>
            \E i \in 1..Len(all_rules) :
              Applicable(i, out.val) /\ Repeated(all_rules[i].fact.arguments)
       /\ (\E i \in 1..Len(all_rules) :
             /\ Applicable(i, out.val) /\ Repeated(all_rules[i].fact.arguments)
             /\ \A j \in 1..(i - 1) : ~Applicable(j, out.val))
            => out.err = "pattern"

C7_Witness ==
  /\ GroundFactQuery /\ out.err = "pattern"
  /\ \E i \in 1..Len(all_rules) :
       Repeated(all_rules[i].fact.arguments) /\ Applicable(i, out.val)

\* C8: inserting a fact or rule equal to a stored one changes nothing; the
\* fact list and the rule list hold no two equal entries and keep the
\* order of first insertion.
C8_IdempotentInsertion ==
  [][/\ NoDuplicates(all_facts') /\ NoDuplicates(all_rules')
     /\ IsPrefix(all_facts, all_facts') /\ IsPrefix(all_rules, all_rules')
     /\ (out'.op = "statement" /\ out'.ok /\ out'.val.kind # "none"
           /\ (InSeq(out'.val, all_facts) \/ InSeq(out'.val, all_rules)))
          => KB' = KB
     /\ (out'.op = "statement" /\ out'.ok /\ out'.val.kind # "none")
          => (InSeq(out'.val, all_facts') \/ InSeq(out'.val, all_rules'))]_vars

C8_Witness ==
  /\ out.op = "statement" /\ out.ok /\ out.val.kind = "rule"
  /\ Len(all_rules) = 2 /\ all_rules[1] = out.val

\* C9: every argument of the head of every stored rule is a Variable.
C9_HeadArgumentsAreVariables ==
  \A i \in 1..Len(all_rules) :
    \A k \in 1..Len(all_rules[i].fact.arguments) :
      all_rules[i].fact.arguments[k].type = "variable"

\* C10 as stated: whenever a stored rule's body re-invokes its own head with
\* unchanged arguments, a ground call that matches the head never returns a
\* result.
RECURSIVE Invokes(_, _)
Invokes(body, head) ==
  IF body.kind = "fact" THEN body = head
  ELSE Invokes(body.arg1, head) \/ Invokes(body.arg2, head)

SelfInvoking(i) == Invokes(all_rules[i].body, all_rules[i].fact)

C10_SelfInvokingRuleNeverReturns ==
  (GroundFactQuery /\ \E i \in 1..Len(all_rules) :
                        /\ Applicable(i, out.val) /\ SelfInvoking(i)
                        /\ ~Repeated(all_rules[i].fact.arguments))
    => ~out.ok

\* C10 as amended: there is no cycle detection, so an evaluation that
\* reaches a call of a goal that is still in progress never returns a
\* result; a self-invoking rule is reached when it is the first rule of
\* the call's predicate and arity and its body is the head itself.
C10_ReachedCycleNeverReturns ==
  /\ out.op = "query" => (out.res.re => (~out.ok /\ out.err = "overflow"))
  /\ GroundFactQuery =>
       ((\E i \in 1..Len(all_rules) :
           /\ Applicable(i, out.val) /\ all_rules[i].body = all_rules[i].fact
           /\ ~Repeated(all_rules[i].fact.arguments)
           /\ \A j \in 1..(i - 1) : ~Applicable(j, out.val))
        => (~out.ok /\ out.err = "overflow"))

C10_Witness ==
  /\ GroundFactQuery /\ out.err = "overflow" /\ out.res.re
  /\ \E i \in 1..Len(all_rules) : Applicable(i, out.val) /\ SelfInvoking(i)

=============================================================================
